---- MODULE Spec2Model ----
(***************************************************************************)
(* Model of VolumeBlock (src/volume/mod.rs): the amixer poller with its    *)
(* exponential backoff, the parser of the mixer status line, and the       *)
(* icon/text renderer.                                                     *)
(*                                                                         *)
(* A Rust String is modelled as the sequence of its chars; a char is a     *)
(* one-character TLA+ string, except for the two-byte char U+00E9, which   *)
(* is written "U+00E9".  Byte offsets are computed from Utf8Len.           *)
(***************************************************************************)
EXTENDS Integers, Sequences, FiniteSets, TLC

VARIABLES current_volume, muted, pc, wait_time_seconds, fails, slept,
          retried, stdout, info, result, old_volume, old_muted

vars == <<current_volume, muted, pc, wait_time_seconds, fails, slept,
          retried, stdout, info, result, old_volume, old_muted>>

\* ---- bounds of the model ----

\* longest enumerated status line, in chars
MaxLen == 4

\* most failed attempts of one poller call that the model follows
MaxFailures == 7

\* ---- program constants ----

MAX_WAIT_SECONDS == 30

I32_MAX == 2147483647

VOLUME_ICONS == <<"U+F057F", "U+F0580", "U+F057E">>

MUTE_ICON == "U+F0581"

ZERO_ICON == "U+F0E08"

\* ---- status lines the mixer can print ----

LineOn75 ==
    <<"M", "o", "n", "o", ":", " ", "P", "l", "a", "y", "b", "a",
      "c", "k", " ", "5", "0", " ", "[", "7", "5", "%", "]", " ",
      "[", "o", "n", "]">>
LineOff0 ==
    <<"M", "o", "n", "o", ":", " ", "P", "l", "a", "y", "b", "a",
      "c", "k", " ", "0", " ", "[", "0", "%", "]", " ", "[", "o",
      "f", "f", "]">>
LineNoBrackets ==
    <<"n", "o", " ", "b", "r", "a", "c", "k", "e", "t", "s", " ",
      "h", "e", "r", "e">>
LineDb ==
    <<"F", "r", "o", "n", "t", " ", "L", "e", "f", "t", ":", " ",
      "P", "l", "a", "y", "b", "a", "c", "k", " ", "4", "8", " ",
      "[", "7", "5", "%", "]", " ", "[", "-", "1", "2", ".", "0",
      "0", "d", "B", "]", " ", "[", "o", "n", "]">>
LineOn0 ==
    <<"[", "0", "%", "]", " ", "[", "o", "n", "]">>
LineOn33 ==
    <<"[", "3", "3", "%", "]", " ", "[", "o", "n", "]">>
LineOn50 ==
    <<"[", "5", "0", "%", "]", " ", "[", "o", "n", "]">>
LineOn100 ==
    <<"[", "1", "0", "0", "%", "]", " ", "[", "o", "n", "]">>
LineOn150 ==
    <<"[", "1", "5", "0", "%", "]", " ", "[", "o", "n", "]">>
LineOverflow ==
    <<"[", "9", "9", "9", "9", "9", "9", "9", "9", "9", "9", "9",
      "%", "]", " ", "[", "o", "n", "]">>
LineOffThenOn ==
    <<"[", "5", "0", "%", "]", " ", "[", "o", "f", "f", "]", " ",
      "o", "n">>
LinePercentOnly ==
    <<"[", "5", "0", "%", "]">>
LineAccentOff ==
    <<"U+00E9", "[", "o", "f", "f", "]">>
LineAccentOnOff ==
    <<"U+00E9", "U+00E9", "o", "n", "[", "o", "f", "f", "]">>
LineAccentDigitOnOff ==
    <<"U+00E9", "U+00E9", "U+00E9", "7", "o", "n", "[", "o", "f", "f", "]">>
HeaderLine ==
    <<"S", "i", "m", "p", "l", "e", " ", "m", "i", "x", "e", "r",
      " ", "c", "o", "n", "t", "r", "o", "l", " ", "'", "M", "a",
      "s", "t", "e", "r", "'", ",", "0">>

ScenarioLines ==
    { LineOn75, LineOff0, LineNoBrackets, LineDb, LineOn0, LineOn33,
      LineOn50, LineOn100, LineOn150, LineOverflow, LineOffThenOn,
      LinePercentOnly, LineAccentOff, LineAccentOnOff,
      LineAccentDigitOnOff }

Alphabet == {"[", "o", "n", "f", "7", "U+00E9"}

BoundedLines == UNION { [1..n -> Alphabet] : n \in 0..MaxLen }

\* decoded stdout texts: every line followed by a newline, and some texts
\* of several lines, without a final newline, with CR LF, or empty
ScenarioTexts ==
    { <<>>,
      HeaderLine \o <<"\n">> \o LineOn75 \o <<"\n">>,
      HeaderLine \o <<"\n">> \o LineOff0 \o <<"\n">>,
      LineOn75 \o <<"\n">> \o LineOn50,
      LineOn33 \o <<"\r", "\n">>,
      LineOn50 \o <<"\n", "\n">> }

Texts ==
    { l \o <<"\n">> : l \in BoundedLines \cup ScenarioLines }
        \cup ScenarioTexts

\* what one run of `amixer sget Master` can give
Outcomes ==
    { [status |-> "spawn_failed", text |-> <<>>],
      [status |-> "invalid_utf8", text |-> <<>>] }
        \cup { [status |-> "ok", text |-> t] : t \in Texts }

NoOutcome == [status |-> "none", text |-> <<>>]

\* ---- string helpers (Rust std) ----

Min(a, b) == IF a < b THEN a ELSE b

Utf8Len(c) == IF c = "U+00E9" THEN 2 ELSE 1

Digits == <<"0", "1", "2", "3", "4", "5", "6", "7", "8", "9">>

\* char::is_digit(10)
IsDigit(c) == \E d \in 1..10 : Digits[d] = c

DigitVal(c) == (CHOOSE d \in 1..10 : Digits[d] = c) - 1

\* str::contains
Contains(s, pat) ==
    \E k \in 1..(Len(s) - Len(pat) + 1) : SubSeq(s, k, k + Len(pat) - 1) = pat

\* info.chars().position(|c| c == ch): 0-based char index, -1 for None
CharPosition(s, ch) ==
    IF \E k \in 1..Len(s) : s[k] = ch
    THEN (CHOOSE k \in 1..Len(s) : s[k] = ch /\ \A j \in 1..(k - 1) : s[j] # ch) - 1
    ELSE -1

RECURSIVE ByteLen(_)
ByteLen(s) == IF s = <<>> THEN 0 ELSE Utf8Len(Head(s)) + ByteLen(Tail(s))

\* str::is_char_boundary, i a 0-based byte index
IsCharBoundary(s, i) == \E k \in 0..Len(s) : ByteLen(SubSeq(s, 1, k)) = i

\* &s[i..] for a byte index i on a char boundary
SliceFrom(s, i) ==
    LET k == CHOOSE k \in 0..Len(s) : ByteLen(SubSeq(s, 1, k)) = i
    IN  SubSeq(s, k + 1, Len(s))

\* str::lines: split after every "\n", then strip the "\n" and one "\r"
\* before it; a final piece without "\n" is kept as it is
RECURSIVE Lines(_)
Lines(s) ==
    IF s = <<>> THEN <<>>
    ELSE LET nl == CharPosition(s, "\n") + 1
         IN  IF nl = 0 THEN <<s>>
             ELSE LET piece == SubSeq(s, 1, nl - 1)
                      line == IF piece # <<>> /\ piece[Len(piece)] = "\r"
                              THEN SubSeq(piece, 1, Len(piece) - 1)
                              ELSE piece
                  IN  <<line>> \o Lines(SubSeq(s, nl + 1, Len(s)))

\* checked accumulation of str::parse::<i32> on a string of digits;
\* -1 stands for PosOverflow
RECURSIVE ParseDigits(_, _)
ParseDigits(ds, acc) ==
    IF ds = <<>> THEN acc
    ELSE LET d == DigitVal(Head(ds))
         IN  IF acc > (I32_MAX - d) \div 10 THEN -1
             ELSE ParseDigits(Tail(ds), acc * 10 + d)

\* str::parse::<i32>
ParseI32(ds) ==
    IF ds = <<>>
    THEN [ok |-> FALSE, value |-> 0,
          error |-> "cannot parse integer from empty string"]
    ELSE LET v == ParseDigits(ds, 0)
         IN  IF v < 0
             THEN [ok |-> FALSE, value |-> 0,
                   error |-> "number too large to fit in target type"]
             ELSE [ok |-> TRUE, value |-> v, error |-> ""]

\* format!("{}", n) for n >= 0
RECURSIVE ToDecimal(_)
ToDecimal(n) ==
    IF n < 10 THEN <<Digits[n + 1]>>
    ELSE ToDecimal(n \div 10) \o <<Digits[(n % 10) + 1]>>

\* ---- VolumeBlock::get_volume_info ----

\* info.lines().last() as a mutant would take it: the first line
FirstLine(text) ==
    LET ls == Lines(text)
    IN  IF ls = <<>> THEN [some |-> FALSE, line |-> <<>>]
        ELSE [some |-> TRUE, line |-> ls[1]]

\* info.lines().last()
LastLine(text) ==
    LET ls == Lines(text)
    IN  IF ls = <<>> THEN [some |-> FALSE, line |-> <<>>]
        ELSE [some |-> TRUE, line |-> ls[Len(ls)]]

\* one pass of the loop body up to the return: Some(line) when the command
\* ran, its stdout is UTF-8 and the text has a line
PollAttempt(o) ==
    IF o.status = "ok" THEN LastLine(o.text)
    ELSE [some |-> FALSE, line |-> <<>>]

\* the backoff without its ceiling
NextWaitUncapped(w) == IF w < MAX_WAIT_SECONDS THEN w * 2 ELSE w

\* the wait after a sleep of w seconds
NextWait(w) ==
    IF w < MAX_WAIT_SECONDS THEN Min(MAX_WAIT_SECONDS, w * 2) ELSE w

\* ---- VolumeBlock::update_current_volume ----

OkResult == [status |-> "Ok", block_name |-> "", message |-> <<>>]

NoResult == [status |-> "none", block_name |-> "", message |-> <<>>]

PanicResult == [status |-> "panic", block_name |-> "", message |-> <<>>]

UpdateError(msg) == [status |-> "Err", block_name |-> "volume", message |-> msg]

MsgAmixerOutput == <<"couldn't parse amixer output">>

MsgMuteState == <<"couldn't parse if volume is definitely muted or not">>

MsgVolume(raw_percent, e) ==
    <<"couldn't parse volume from ", raw_percent, ": ", e>>

\* the digits of the segment
RawPercent(line_end) == SelectSeq(line_end, IsDigit)

\* the parse of a line: the new fields and the value update() returns.
\* The slice takes the char index of the bracket as a byte index and panics when it
\* is not a char boundary; muted is assigned before the digits are parsed.
update_current_volume(line, cv, m) ==
    LET i == CharPosition(line, "[")
    IN  IF i < 0
        THEN [current_volume |-> cv, muted |-> m,
              result |-> UpdateError(MsgAmixerOutput)]
        ELSE IF ~IsCharBoundary(line, i)
        THEN [current_volume |-> cv, muted |-> m, result |-> PanicResult]
        ELSE LET line_end == SliceFrom(line, i)
             IN  IF Contains(line_end, <<"o", "n">>)
                 THEN LET raw_percent == RawPercent(line_end)
                          parsed == ParseI32(raw_percent)
                      IN  IF parsed.ok
                          THEN [current_volume |-> parsed.value,
                                muted |-> FALSE, result |-> OkResult]
                          ELSE [current_volume |-> cv, muted |-> FALSE,
                                result |-> UpdateError(
                                    MsgVolume(raw_percent, parsed.error))]
                 ELSE IF Contains(line_end, <<"o", "f", "f">>)
                 THEN [current_volume |-> cv, muted |-> TRUE,
                       result |-> OkResult]
                 ELSE [current_volume |-> cv, muted |-> m,
                       result |-> UpdateError(MsgMuteState)]

\* ---- VolumeBlock::get_icon and output ----

\* the level index with one bin too few
IconIndexShort(cv) ==
    Min((cv * (Len(VOLUME_ICONS) - 1)) \div 100, Len(VOLUME_ICONS) - 1)

\* 0-based index into VOLUME_ICONS
IconIndex(cv) ==
    Min((cv * Len(VOLUME_ICONS)) \div 100, Len(VOLUME_ICONS) - 1)

\* the icon with the muted rule tried first
get_icon_muted_first(cv, m) ==
    IF m THEN MUTE_ICON
    ELSE IF cv = 0 THEN ZERO_ICON
    ELSE VOLUME_ICONS[IconIndex(cv) + 1]

get_icon(cv, m) ==
    IF cv = 0 THEN ZERO_ICON
    ELSE IF m THEN MUTE_ICON
    ELSE VOLUME_ICONS[IconIndex(cv) + 1]

TextMuted == <<"M", "u", "t", "e", "d">>

\* the text with the muted flag left out of the test
primary_text_zero_only(cv, m) ==
    IF cv = 0 THEN TextMuted ELSE ToDecimal(cv) \o <<"%">>

primary_text(cv, m) ==
    IF m \/ cv = 0 THEN TextMuted ELSE ToDecimal(cv) \o <<"%">>

\* Block::output: always Some(Nice(..))
output(cv, m) ==
    [present |-> TRUE,
     icon |-> get_icon(cv, m),
     primary_text |-> primary_text(cv, m),
     secondary_text |-> "None",
     attention |-> "Dim"]

\* ---- the block as a state machine ----

Init ==
    /\ current_volume = 0
    /\ muted = FALSE
    /\ pc = "idle"
    /\ wait_time_seconds = 0
    /\ fails = 0
    /\ slept = 0
    /\ retried = FALSE
    /\ stdout = NoOutcome
    /\ info = <<>>
    /\ result = NoResult
    /\ old_volume = 0
    /\ old_muted = FALSE

\* the host calls update(): the poller starts with a wait of one second
Update ==
    /\ pc = "idle"
    /\ pc' = "attempt"
    /\ wait_time_seconds' = 1
    /\ fails' = 0
    /\ slept' = 0
    /\ retried' = FALSE
    /\ stdout' = NoOutcome
    /\ info' = <<>>
    /\ result' = NoResult
    /\ old_volume' = current_volume
    /\ old_muted' = muted
    /\ UNCHANGED <<current_volume, muted>>

\* one run of amixer.  A failed attempt goes to the sleep; a successful
\* one returns its last line, which update_current_volume parses at once.
Attempt ==
    /\ pc = "attempt"
    /\ \E o \in Outcomes :
         LET r == PollAttempt(o)
         IN  /\ stdout' = o
             /\ IF r.some
                THEN LET u == update_current_volume(r.line, current_volume, muted)
                     IN  /\ info' = r.line
                         /\ current_volume' = u.current_volume
                         /\ muted' = u.muted
                         /\ result' = u.result
                         /\ pc' = IF u.result.status = "panic"
                                  THEN "aborted" ELSE "idle"
                         /\ wait_time_seconds' = 0
                         /\ fails' = 0
                         /\ slept' = 0
                         /\ UNCHANGED <<retried, old_volume, old_muted>>
                ELSE /\ fails < MaxFailures
                     /\ fails' = fails + 1
                     /\ pc' = "sleep"
                     /\ UNCHANGED <<current_volume, muted, wait_time_seconds,
                                    slept, retried, info, result,
                                    old_volume, old_muted>>

\* thread::sleep(wait_time_seconds), then the wait is doubled up to the cap
Sleep ==
    /\ pc = "sleep"
    /\ slept' = wait_time_seconds
    /\ wait_time_seconds' = NextWait(wait_time_seconds)
    /\ retried' = TRUE
    /\ pc' = "attempt"
    /\ stdout' = NoOutcome
    /\ UNCHANGED <<current_volume, muted, fails, info, result,
                   old_volume, old_muted>>

Next == Update \/ Attempt \/ Sleep

Spec == Init /\ [][Next]_vars

TypeOK ==
    /\ current_volume \in 0..I32_MAX
    /\ muted \in BOOLEAN
    /\ pc \in {"idle", "attempt", "sleep", "aborted"}
    /\ wait_time_seconds \in 0..MAX_WAIT_SECONDS
    /\ fails \in 0..MaxFailures
    /\ slept \in 0..MAX_WAIT_SECONDS
    /\ retried \in BOOLEAN


\* ---- vocabulary of the properties ----

\* the last update() call has ended, by a return or by a panic
Returned == pc \in {"idle", "aborted"} /\ result.status # "none"

HasBracket(line) == \E k \in 1..Len(line) : line[k] = "["

\* the suffix of the line that begins at its first bracket
SegmentFromBracket(line) ==
    LET k == CHOOSE k \in 1..Len(line) :
                 line[k] = "[" /\ \A j \in 1..(k - 1) : line[j] # "["
    IN  SubSeq(line, k, Len(line))

TokenOn == <<"o", "n">>

TokenOff == <<"o", "f", "f">>

NowOutput == output(current_volume, muted)

\* C1: when update() returns an error, current_volume and muted are what
\* they were before the call.
C1_ErrorLeavesStateUnchanged ==
    (pc = "idle" /\ result.status = "Err")
        => (current_volume = old_volume /\ muted = old_muted)

\* C2: in every reachable state current_volume is a percent in 0..100.
C2_VolumeIsPercent == current_volume \in 0..100

\* C3: on every line with the token "off" after its first bracket,
\* update() succeeds with muted = true and current_volume as before.
C3_OffMutesAndKeepsVolume ==
    (Returned /\ HasBracket(info)
        /\ Contains(SegmentFromBracket(info), TokenOff))
        => (result = OkResult /\ muted /\ current_volume = old_volume)

\* C4 as claimed: after update() on "Mono: Playback 50 [75%] [on]" the
\* state is (75, unmuted), the text is "75%" and the icon is the middle
\* element of the level icons.
C4_Line75ShowsMiddleIcon ==
    (Returned /\ info = LineOn75)
        => /\ result = OkResult
           /\ current_volume = 75 /\ ~muted
           /\ NowOutput.primary_text = <<"7", "5", "%">>
           /\ NowOutput.icon = VOLUME_ICONS[2]

\* C4 as amended: after update() on "Mono: Playback 50 [75%] [on]" the
\* state is (75, unmuted), the text is "75%" and the icon is the one at
\* index min(N-1, floor(75 * N / 100)) = 2, the last of the N = 3 level
\* icons.
C4_Line75ShowsLastIcon ==
    (Returned /\ info = LineOn75)
        => LET N == Len(VOLUME_ICONS)
               index == Min(N - 1, (current_volume * N) \div 100)
           IN  /\ result = OkResult
               /\ current_volume = 75 /\ ~muted
               /\ NowOutput.primary_text = <<"7", "5", "%">>
               /\ index = N - 1
               /\ NowOutput.icon = VOLUME_ICONS[index + 1]

C4_Witness ==
    /\ pc = "idle" /\ info = LineOn75 /\ result = OkResult
    /\ old_muted /\ old_volume = 150 /\ current_volume = 75

\* C5 as claimed, on its own example line: after update() succeeds on
\* "Mono: Playback 0 [0%] [off]" from any prior state, muted is true, the
\* text is "Muted" and the icon is the mute icon.
C5_MutedLineShowsMuteIcon ==
    (pc = "idle" /\ result = OkResult /\ info = LineOff0)
        => /\ muted
           /\ NowOutput.primary_text = TextMuted
           /\ NowOutput.icon = MUTE_ICON

\* C5 as amended: update() on "Mono: Playback 0 [0%] [off]" succeeds with
\* muted = true from any prior state, and after any update() that succeeds
\* with muted = true the volume is the prior one, the text is "Muted" and
\* the icon is the mute icon when current_volume is not 0 and the zero
\* icon when it is 0.
C5_MutedLineShowsMuteOrZeroIcon ==
    /\ (Returned /\ info = LineOff0) => (result = OkResult /\ muted)
    /\ (pc = "idle" /\ result = OkResult /\ muted)
           => /\ current_volume = old_volume
              /\ NowOutput.present
              /\ NowOutput.primary_text = TextMuted
              /\ NowOutput.icon =
                     IF current_volume = 0 THEN ZERO_ICON ELSE MUTE_ICON

C5_Witness ==
    /\ pc = "idle" /\ result = OkResult /\ info = LineOff0
    /\ muted /\ ~old_muted /\ current_volume = 75
    /\ NowOutput.icon = MUTE_ICON

\* the sleep after the k-th failed attempt of a call, in seconds
Backoff(k) == Min(2 ^ (k - 1), 30)

\* C6: within one call the sleep after the k-th failed attempt lasts
\* min(2^(k-1), 30) seconds; the wait counter is 1 when the call starts, is
\* doubled only after the sleep that used it and never exceeds 30.
C6_BackoffSequence ==
    /\ wait_time_seconds <= 30
    /\ pc = "sleep" => (fails >= 1 /\ wait_time_seconds = Backoff(fails))
    /\ pc = "attempt" =>
           IF fails = 0
           THEN wait_time_seconds = 1 /\ slept = 0
           ELSE /\ slept = Backoff(fails)
                /\ wait_time_seconds = Backoff(fails + 1)
                /\ wait_time_seconds >= slept

C6_Witness ==
    /\ pc = "attempt" /\ fails = 7
    /\ slept = 30 /\ wait_time_seconds = 30

\* an attempt that the poller must treat as failed
AttemptFailed(o) == o.status # "ok" \/ o.text = <<>>

\* l is the last line of the text t: t ends with l and an optional line
\* ending, and l follows a newline or starts t
IsLastLineOf(l, t) ==
    /\ \A k \in 1..Len(l) : l[k] # "\n"
    /\ \E ending \in {<<>>, <<"\n">>, <<"\r", "\n">>} :
         LET n == Len(t) - Len(ending) - Len(l)
             body == SubSeq(t, 1, Len(t) - Len(ending))
         IN  /\ n >= 0
             /\ SubSeq(t, n + 1, Len(t)) = l \o ending
             /\ n > 0 => t[n] = "\n"
             /\ ending = <<>> => l # <<>>
             /\ ending = <<"\n">> =>
                    (body = <<>> \/ body[Len(body)] # "\r")

\* C7: the poller returns only from an attempt that succeeded, with the
\* last line of that attempt's text and without a sleep after it; after a
\* failed attempt it sleeps and attempts again, and neither step changes
\* current_volume or muted.
C7_PollerRetriesUntilSuccess ==
    [][ /\ (pc = "attempt" /\ pc' = "sleep")
              => /\ AttemptFailed(stdout')
                 /\ current_volume' = current_volume /\ muted' = muted
        /\ (pc = "attempt" /\ AttemptFailed(stdout')) => pc' = "sleep"
        /\ pc = "sleep"
              => /\ pc' = "attempt"
                 /\ slept' = wait_time_seconds
                 /\ current_volume' = current_volume /\ muted' = muted
        /\ (pc # "idle" /\ pc' \in {"idle", "aborted"})
              => /\ pc = "attempt"
                 /\ ~AttemptFailed(stdout')
                 /\ IsLastLineOf(info', stdout'.text)
                 /\ result'.status # "none"
      ]_vars

C7_Witness ==
    /\ pc = "idle" /\ retried /\ result = OkResult
    /\ info = LineOn75
    /\ stdout.text = HeaderLine \o <<"\n">> \o LineOn75 \o <<"\n">>

\* the result C8 gives for a line
ExpectedResult(line) ==
    IF ~HasBracket(line) THEN UpdateError(MsgAmixerOutput)
    ELSE LET seg == SegmentFromBracket(line)
             raw == SelectSeq(seg, IsDigit)
         IN  IF ~Contains(seg, TokenOn) /\ ~Contains(seg, TokenOff)
             THEN UpdateError(MsgMuteState)
             ELSE IF Contains(seg, TokenOn) /\ ~ParseI32(raw).ok
             THEN UpdateError(MsgVolume(raw, ParseI32(raw).error))
             ELSE OkResult

\* C8: update() returns the error for a missing bracket, else the error
\* for a segment from the first bracket with neither "on" nor "off", else
\* the error for an unmuted segment whose digits are not an i32, and Ok
\* otherwise; every error names the block "volume".
C8_ErrorCasesInOrder ==
    Returned => result = ExpectedResult(info)

\* C10: for a line with a bracket the outcome of update() is the outcome
\* on the suffix that begins at the first bracket, and update() ends with
\* Ok or an UpdateError.
C10_SegmentStartsAtFirstBracket ==
    (Returned /\ HasBracket(info))
        => LET u == update_current_volume(SegmentFromBracket(info),
                                          old_volume, old_muted)
           IN  /\ result.status \in {"Ok", "Err"}
               /\ result = u.result
               /\ current_volume = u.current_volume
               /\ muted = u.muted

\* C9: with current_volume = 0 the output is present, with the zero icon
\* and the text "Muted", whatever the muted flag.
C9_ZeroVolumeShowsZeroIcon ==
    current_volume = 0
        => /\ NowOutput.present
           /\ NowOutput.icon = ZERO_ICON
           /\ NowOutput.primary_text = TextMuted

C9_Witness ==
    /\ pc = "idle" /\ result = OkResult
    /\ current_volume = 0 /\ muted

====
